---- MODULE Spec2Model ----
(***************************************************************************)
(* Model of src/app.py: the lazily created shared engine (get_engine), the *)
(* term dissociation handler (dissociate_terms) and the location           *)
(* dissociation handler (dissociate_locations), run against a corpus made  *)
(* of the three tables ns.metadata, ns.annotations_terms, ns.coordinates.  *)
(*                                                                         *)
(* Strings are sequences of one-character strings, so that lower(),        *)
(* replace(), split() and float() are computed character by character.     *)
(* An optional value (Python None / SQL no row) is a set with at most one  *)
(* element.                                                                *)
(***************************************************************************)
EXTENDS Integers, Sequences, FiniteSets, TLC

VARIABLES
    metadata,           \* rows of ns.metadata: [study_id, title]
    annotations_terms,  \* rows of ns.annotations_terms: [study_id, term, weight]
    coordinates,        \* rows of ns.coordinates: [study_id, x, y, z]
    db_url,             \* os.getenv("DB_URL"): TRUE when set to a usable URL
    _engine,            \* the module global _engine (NoEngine = None)
    request,            \* the request the last handler run served
    response,           \* the response that run returned
    created,            \* number of create_engine calls made so far
    pc,                 \* per thread: position inside get_engine
    fresh,              \* per thread: the engine create_engine just built
    returned,           \* per thread: engines its get_engine calls returned
    raised              \* per thread: its last get_engine call raised

vars == <<metadata, annotations_terms, coordinates, db_url, _engine,
          request, response, created, pc, fresh, returned, raised>>

corpusVars == <<metadata, annotations_terms, coordinates>>
threadVars == <<pc, fresh, returned, raised>>

----------------------------------------------------------------------------
(* Bounds of the model *)

\* size of the block of uniform studies that lets a difference exceed the cap
BulkMax == 150
\* the arbitrary iteration order of a Python set is modelled by the cyclic
\* order of the ids starting at an offset 0..MaxRot
MaxRot == 1
\* number of concurrent request threads calling get_engine
NThreads == 3

(* Program constants *)

\* _engine = None
NoEngine == 0
\* list(difference_ids)[:100], list(difference)[:100]
Cap == 100
\* third argument of ST_DWithin, "radius_mm": 10
Radius == 10

\* studies whose rows are chosen freely; the bulk block follows them
IndivIds == {1, 2}
FirstBulkId == Cardinality(IndivIds) + 1
AllIds == 1..(FirstBulkId + BulkMax)

Min(a, b) == IF a < b THEN a ELSE b

----------------------------------------------------------------------------
(* Strings *)

\* str.lower() on one character of the modelled alphabet
LowerChar(c) ==
    CASE c = "A" -> "a"
      [] c = "B" -> "b"
      [] c = "C" -> "c"
      [] c = "X" -> "x"
      [] OTHER -> c

\* str.lower()
lower(s) == [i \in DOMAIN s |-> LowerChar(s[i])]

\* str.replace(old, new) for one-character old and new
replace(s, old, new) == [i \in DOMAIN s |-> IF s[i] = old THEN new ELSE s[i]]

\* SQL: string ILIKE pattern, with % (any run) and _ (any one character)
RECURSIVE ILikeFrom(_, _, _, _)
ILikeFrom(s, i, pat, j) ==
    IF j > Len(pat) THEN i > Len(s)
    ELSE IF pat[j] = "%"
         THEN ILikeFrom(s, i, pat, j + 1)
              \/ (i <= Len(s) /\ ILikeFrom(s, i + 1, pat, j))
    ELSE IF i > Len(s) THEN FALSE
    ELSE IF pat[j] = "_" \/ LowerChar(pat[j]) = LowerChar(s[i])
         THEN ILikeFrom(s, i + 1, pat, j + 1)
    ELSE FALSE

ILIKE(s, pat) == ILikeFrom(s, 1, pat, 1)

\* f"%{term.replace('_', ' ')}%"
term_pattern(term) == <<"%">> \o replace(term, "_", " ") \o <<"%">>

\* f"terms_abstract_tfidf__{term.lower().replace('-', '_')}"
\* (the fixed prefix is kept as one token)
term_tfidf(term) == <<"terms_abstract_tfidf__">> \o replace(lower(term), "-", "_")

----------------------------------------------------------------------------
(* The shared engine *)

\* get_engine() run without interruption: the engine the call returns
\* (NoEngine when it raises RuntimeError) and the value it leaves in _engine
get_engine(eng, url) ==
    IF eng # NoEngine THEN [raised |-> FALSE, engine |-> eng, made |-> 0]
    ELSE IF ~url THEN [raised |-> TRUE, engine |-> NoEngine, made |-> 0]
    ELSE [raised |-> FALSE, engine |-> created + 1, made |-> 1]

\* Flask's reply to an exception that leaves the view function: a generic
\* 500 page that does not carry str(e)
UnhandledResponse ==
    [status |-> 500, kind |-> "unhandled", error |-> "Internal Server Error",
     a |-> <<>>, b |-> <<>>, count |-> 0, results |-> <<>>]

\* except Exception as e: return jsonify({"error": str(e)}), 500
ErrorResponse(msg) ==
    [status |-> 500, kind |-> "error", error |-> msg,
     a |-> <<>>, b |-> <<>>, count |-> 0, results |-> <<>>]

\* the failures a corpus access can be made to have during one request
Failures == {"none", "connect", "query_a", "query_b", "weight"}

\* str(e) of the exception each failing corpus access raises
ErrorMessage(fail) ==
    CASE fail = "connect" -> "OperationalError: connect"
      [] fail = "query_a" -> "OperationalError: query A"
      [] fail = "query_b" -> "OperationalError: query B"
      [] fail = "weight"  -> "OperationalError: weight lookup"
      [] OTHER -> ""

----------------------------------------------------------------------------
(* list(a_set)[:100] *)

\* the ids in cyclic order starting after offset rot
IdOrder(rot) == [i \in 1..Cardinality(AllIds) |-> ((i - 1 + rot) % Cardinality(AllIds)) + 1]

\* list(S): the elements of S in the iteration order chosen by rot
list(S, rot) == SelectSeq(IdOrder(rot), LAMBDA x : x \in S)

\* a cut one entry late: seq[:101]
TruncateLate(seq) == SubSeq(seq, 1, Min(Cap + 1, Len(seq)))

\* seq[:100]
Truncate(seq) == SubSeq(seq, 1, Min(Cap, Len(seq)))

----------------------------------------------------------------------------
(* dissociate_terms *)

\* the rows query_template returns: DISTINCT (study_id, title) of the metadata
\* rows whose title matches or that join an annotation row of the given term
TermQuery(pattern, tfidf) ==
    { <<m.study_id, m.title>> : m \in
        { m \in metadata :
            \/ ILIKE(m.title, pattern)
            \/ \E at \in annotations_terms :
                   at.study_id = m.study_id /\ at.term = tfidf } }

\* the weights of the rows SELECT weight ... WHERE study_id = :sid AND term = :term
WeightRows(sid, tfidf) ==
    { at.weight : at \in { r \in annotations_terms :
                             r.study_id = sid /\ r.term = tfidf } }

\* the union in place of the difference: studies_a | studies_b
DifferenceAsUnion(studies_a, studies_b) == studies_a \cup studies_b

\* set(studies_a.keys()) - studies_b, studies_a - studies_b
Difference(studies_a, studies_b) == studies_a \ studies_b

\* the count taken after the cut: len(detailed_results)
TotalCountCapped(difference_ids) == Min(Cardinality(difference_ids), Cap)

\* len(difference_ids), len(difference)
TotalCount(difference_ids) == Cardinality(difference_ids)

\* the weight looked up under the key of predicate B
WeightKeyOfB(term_a, term_b) == term_tfidf(term_b)

\* the key the weight lookup is made with: term_a_tfidf
WeightKey(term_a, term_b) == term_tfidf(term_a)

\* the responses a run of the body of dissociate_terms can return; the rows
\* LIMIT 1 picks among several weight rows is a free choice
TermsResponses(term_a, term_b, fail, rot) ==
    IF fail = "connect" THEN {ErrorResponse(ErrorMessage(fail))}
    ELSE IF fail = "query_a" THEN {ErrorResponse(ErrorMessage(fail))}
    ELSE IF fail = "query_b" THEN {ErrorResponse(ErrorMessage(fail))}
    ELSE
    LET result_a == TermQuery(term_pattern(term_a), term_tfidf(term_a))
        result_b == TermQuery(term_pattern(term_b), term_tfidf(term_b))
        ids_a == { row[1] : row \in result_a }
        \* {row[0]: row[1] for row in result_a}: a later row overwrites
        TitleOf(sid) == { row[2] : row \in { r \in result_a : r[1] = sid } }
        studies_b == { row[1] : row \in result_b }
        difference_ids == Difference(ids_a, studies_b)
        shown == Truncate(list(difference_ids, rot))
        shownIds == { shown[i] : i \in DOMAIN shown }
        key == WeightKey(term_a, term_b)
        ambiguous == { sid \in shownIds :
                         \/ Cardinality(WeightRows(sid, key)) > 1
                         \/ Cardinality(TitleOf(sid)) > 1 }
        Choices == { c \in [ambiguous -> [w : UNION { WeightRows(sid, key) : sid \in ambiguous } \cup {0},
                                          t : UNION { TitleOf(sid) : sid \in ambiguous }]] :
                       \A sid \in ambiguous :
                           /\ c[sid].t \in TitleOf(sid)
                           /\ IF WeightRows(sid, key) = {} THEN c[sid].w = 0
                              ELSE c[sid].w \in WeightRows(sid, key) }
        Entry(sid, c) ==
            [study_id |-> sid,
             title |-> IF sid \in ambiguous THEN c[sid].t
                       ELSE CHOOSE t \in TitleOf(sid) : TRUE,
             weight |-> IF WeightRows(sid, key) = {} THEN {}
                        ELSE IF sid \in ambiguous THEN {c[sid].w}
                        ELSE WeightRows(sid, key)]
    IN  IF fail = "weight" /\ shownIds # {}
        THEN {ErrorResponse(ErrorMessage(fail))}
        ELSE { [status |-> 200, kind |-> "result", error |-> "",
                a |-> term_a, b |-> term_b,
                count |-> TotalCount(difference_ids),
                results |-> [i \in DOMAIN shown |-> Entry(shown[i], c)]] :
               c \in Choices }

----------------------------------------------------------------------------
(* dissociate_locations *)

\* str.split("_")
RECURSIVE SplitFrom(_, _, _, _)
SplitFrom(s, i, cur, acc) ==
    IF i > Len(s) THEN Append(acc, cur)
    ELSE IF s[i] = "_" THEN SplitFrom(s, i + 1, <<>>, Append(acc, cur))
    ELSE SplitFrom(s, i + 1, Append(cur, s[i]), acc)

split(s) == SplitFrom(s, 1, <<>>, <<>>)

DigitChars == <<"0", "1", "2", "3", "4", "5", "6", "7", "8", "9">>
IsDigit(c) == \E d \in DOMAIN DigitChars : DigitChars[d] = c
DigitVal(c) == (CHOOSE d \in DOMAIN DigitChars : DigitChars[d] = c) - 1

\* the strings of the modelled alphabet float() accepts: an optional sign
\* and one or more decimal digits
IsFloat(tok) ==
    LET body == IF Len(tok) > 0 /\ tok[1] \in {"-", "+"} THEN Tail(tok) ELSE tok
    IN  Len(body) > 0 /\ \A i \in DOMAIN body : IsDigit(body[i])

RECURSIVE DigitsVal(_)
DigitsVal(body) ==
    IF body = <<>> THEN 0
    ELSE 10 * DigitsVal(SubSeq(body, 1, Len(body) - 1)) + DigitVal(body[Len(body)])

\* float(tok) of an accepted string
float(tok) ==
    IF tok[1] = "-" THEN 0 - DigitsVal(Tail(tok))
    ELSE IF tok[1] = "+" THEN DigitsVal(Tail(tok))
    ELSE DigitsVal(tok)

\* x, y, z = map(float, coords.split("_")): the unpacking pulls the items
\* of the lazy map one by one, a fourth one to see that there is none
ParseCoords(coords) ==
    LET toks == split(coords)
        pulled == SubSeq(toks, 1, Min(4, Len(toks)))
    IN  IF \E i \in DOMAIN pulled : ~IsFloat(pulled[i])
        THEN [ok |-> FALSE, error |-> "ValueError: could not convert string to float",
              xyz |-> <<>>]
        ELSE IF Len(toks) < 3
        THEN [ok |-> FALSE, error |-> "ValueError: not enough values to unpack",
              xyz |-> <<>>]
        ELSE IF Len(toks) > 3
        THEN [ok |-> FALSE, error |-> "ValueError: too many values to unpack",
              xyz |-> <<>>]
        ELSE [ok |-> TRUE, error |-> "",
              xyz |-> <<float(toks[1]), float(toks[2]), float(toks[3])>>]

\* PostGIS ST_DWithin(geom, ST_MakePoint(x, y, z), 10) on geometry values:
\* the planar distance of the two points is at most 10; the Z ordinate takes
\* no part in it (the 3D test is ST_3DDWithin)
ST_DWithin(row, p) ==
    (row.x - p[1]) * (row.x - p[1]) + (row.y - p[2]) * (row.y - p[2])
        <= Radius * Radius

\* the study_ids query_a returns: SELECT DISTINCT study_id ... WHERE ST_DWithin
SpatialQuery(p) ==
    { row.study_id : row \in { r \in coordinates : ST_DWithin(r, p) } }

\* the response a run of the body of dissociate_locations returns
LocationsResponse(coords_a, coords_b, fail, rot) ==
    LET pa == ParseCoords(coords_a)
        pb == ParseCoords(coords_b)
    IN  IF ~pa.ok THEN ErrorResponse(pa.error)
        ELSE IF ~pb.ok THEN ErrorResponse(pb.error)
        ELSE IF fail \in {"connect", "query_a", "query_b"}
             THEN ErrorResponse(ErrorMessage(fail))
        ELSE
        LET studies_a == SpatialQuery(pa.xyz)
            studies_b == SpatialQuery(pb.xyz)
            difference == Difference(studies_a, studies_b)
        IN  [status |-> 200, kind |-> "result", error |-> "",
             a |-> pa.xyz, b |-> pb.xyz,
             count |-> TotalCount(difference),
             results |-> Truncate(list(difference, rot))]

----------------------------------------------------------------------------
(* The corpus and the inputs *)

\* titles of ns.metadata rows: "A b" and "x"
Titles == { <<"A", " ", "b">>, <<"x">> }

\* feature names of ns.annotations_terms rows
KeyAB == <<"terms_abstract_tfidf__", "a", "_", "b">>
KeyC == <<"terms_abstract_tfidf__", "c">>

\* the (term, weight) pairs an annotation row of a freely chosen study has
AnnotPairs == { <<KeyAB, 1>>, <<KeyAB, 2>>, <<KeyC, 2>> }

\* the recorded points of ns.coordinates rows
Points == { <<0, 0, 0>>, <<0, 0, 50>>, <<100, 100, 100>> }

\* the terms of the requests: "a-b", "a_b", "A_B", "c"
RawTerms == { <<"a", "-", "b">>, <<"a", "_", "b">>, <<"A", "_", "B">>, <<"c">> }

\* the coordinate strings of the requests:
\* "0_0_0", "100_100_100", "10_20", "a_b_c", "0_0_0_0", "-6_+8_30"
RawCoords ==
    { <<"0", "_", "0", "_", "0">>,
      <<"1", "0", "0", "_", "1", "0", "0", "_", "1", "0", "0">>,
      <<"1", "0", "_", "2", "0">>,
      <<"a", "_", "b", "_", "c">>,
      <<"0", "_", "0", "_", "0", "_", "0">>,
      <<"-", "6", "_", "+", "8", "_", "3", "0">> }

\* sizes of the bulk block: one short of the cap (the freely chosen studies
\* then bring the difference to the cap and past it) and BulkMax
BulkSizes == {Cap - 1, BulkMax}

BulkIds(n) == FirstBulkId..(FirstBulkId + n - 1)

\* the rows of the freely chosen studies: t[s] is the title of study s
\* (<<>>: no metadata row), an[s] its (term, weight) annotation pairs
IndivMetadata(t) ==
    { [study_id |-> s, title |-> t[s]] : s \in { u \in IndivIds : t[u] # <<>> } }

IndivAnnotations(an) ==
    UNION { { [study_id |-> s, term |-> p[1], weight |-> p[2]] : p \in an[s] } :
            s \in IndivIds }

IndivCoordinates(pts) ==
    UNION { { [study_id |-> s, x |-> p[1], y |-> p[2], z |-> p[3]] : p \in pts[s] } :
            s \in IndivIds }

\* small corpora with term data only: every study has at most one metadata
\* row and the table of annotations at most two rows
SmallTermCorpora ==
    { [metadata |-> IndivMetadata(t),
       annotations_terms |-> IndivAnnotations(an),
       coordinates |-> {}] :
      t \in [IndivIds -> Titles \cup {<<>>}],
      an \in { f \in [IndivIds -> SUBSET AnnotPairs] :
                  Cardinality(IndivAnnotations(f)) <= 2 } }

\* large corpora with term data only: the freely chosen studies have a title
\* or no metadata row; every bulk study has the title "A b" and, when its id
\* is even, one annotation row (KeyAB, 1)
LargeTermCorpora ==
    { [metadata |->
          IndivMetadata(t)
          \cup { [study_id |-> s, title |-> <<"A", " ", "b">>] : s \in BulkIds(n) },
       annotations_terms |->
          { [study_id |-> s, term |-> KeyAB, weight |-> 1] :
            s \in { u \in BulkIds(n) : u % 2 = 0 } },
       coordinates |-> {}] :
      t \in [IndivIds -> Titles \cup {<<>>}],
      n \in BulkSizes }

\* small corpora with coordinate data only: every study has any of the points
SmallLocationCorpora ==
    { [metadata |-> {}, annotations_terms |-> {},
       coordinates |-> IndivCoordinates(pts)] :
      pts \in [IndivIds -> SUBSET Points] }

\* large corpora with coordinate data only: the freely chosen studies have
\* at most one point, every bulk study has the point (0, 0, 0)
LargeLocationCorpora ==
    { [metadata |-> {}, annotations_terms |-> {},
       coordinates |->
          IndivCoordinates(pts)
          \cup { [study_id |-> s, x |-> 0, y |-> 0, z |-> 0] : s \in BulkIds(n) }] :
      pts \in [IndivIds -> {{}} \cup { {p} : p \in Points }],
      n \in BulkSizes }

Corpora ==
    SmallTermCorpora \cup LargeTermCorpora
        \cup SmallLocationCorpora \cup LargeLocationCorpora

Threads == 1..NThreads

NoRequest == [endpoint |-> "none", a |-> <<>>, b |-> <<>>, fail |-> "none"]
NoResponse ==
    [status |-> 0, kind |-> "none", error |-> "",
     a |-> <<>>, b |-> <<>>, count |-> 0, results |-> <<>>]

----------------------------------------------------------------------------
(* Requests served one at a time *)

Init ==
    /\ \E c \in Corpora :
           /\ metadata = c.metadata
           /\ annotations_terms = c.annotations_terms
           /\ coordinates = c.coordinates
    /\ db_url \in BOOLEAN
    /\ _engine = NoEngine
    /\ request = NoRequest
    /\ response = NoResponse
    /\ created = 0
    /\ pc = [t \in Threads |-> "idle"]
    /\ fresh = [t \in Threads |-> NoEngine]
    /\ returned = [t \in Threads |-> {}]
    /\ raised = [t \in Threads |-> FALSE]

\* GET /dissociate/terms/<term_a>/<term_b>
dissociate_terms(term_a, term_b, fail, rot) ==
    LET eng == get_engine(_engine, db_url)
    IN  /\ request = NoRequest
        /\ _engine' = eng.engine
        /\ created' = created + eng.made
        /\ request' = [endpoint |-> "terms", a |-> term_a, b |-> term_b, fail |-> fail]
        /\ IF eng.raised
           THEN response' = UnhandledResponse
           ELSE response' \in TermsResponses(term_a, term_b, fail, rot)
        /\ UNCHANGED <<corpusVars, db_url, threadVars>>

\* GET /dissociate/locations/<coords_a>/<coords_b>
dissociate_locations(coords_a, coords_b, fail, rot) ==
    LET eng == get_engine(_engine, db_url)
    IN  /\ request = NoRequest
        /\ _engine' = eng.engine
        /\ created' = created + eng.made
        /\ request' = [endpoint |-> "locations", a |-> coords_a, b |-> coords_b,
                       fail |-> fail]
        /\ IF eng.raised
           THEN response' = UnhandledResponse
           ELSE response' = LocationsResponse(coords_a, coords_b, fail, rot)
        /\ UNCHANGED <<corpusVars, db_url, threadVars>>

\* the response leaves the server, which then takes the next request
send_response ==
    /\ request # NoRequest
    /\ request' = NoRequest
    /\ response' = NoResponse
    /\ UNCHANGED <<corpusVars, db_url, _engine, created, threadVars>>

Next ==
    \/ \E term_a \in RawTerms, term_b \in RawTerms, fail \in Failures, rot \in 0..MaxRot :
           dissociate_terms(term_a, term_b, fail, rot)
    \/ \E coords_a \in RawCoords, coords_b \in RawCoords,
          fail \in Failures \ {"weight"}, rot \in 0..MaxRot :
           dissociate_locations(coords_a, coords_b, fail, rot)
    \/ send_response

Spec == Init /\ [][Next]_vars

----------------------------------------------------------------------------
(* Concurrent calls of get_engine, one bytecode-level step at a time *)

InitEngine ==
    /\ metadata = {}
    /\ annotations_terms = {}
    /\ coordinates = {}
    /\ db_url \in BOOLEAN
    /\ _engine = NoEngine
    /\ request = NoRequest
    /\ response = NoResponse
    /\ created = 0
    /\ pc = [t \in Threads |-> "idle"]
    /\ fresh = [t \in Threads |-> NoEngine]
    /\ returned = [t \in Threads |-> {}]
    /\ raised = [t \in Threads |-> FALSE]

\* a request thread enters get_engine
ge_call(t) ==
    /\ pc[t] = "idle"
    /\ pc' = [pc EXCEPT ![t] = "check"]
    /\ raised' = [raised EXCEPT ![t] = FALSE]
    /\ UNCHANGED <<corpusVars, db_url, _engine, request, response, created,
                   fresh, returned>>

\* if _engine is not None: return _engine
ge_check(t) ==
    /\ pc[t] = "check"
    /\ IF _engine # NoEngine
       THEN /\ returned' = [returned EXCEPT ![t] = @ \cup {_engine}]
            /\ pc' = [pc EXCEPT ![t] = "idle"]
       ELSE /\ pc' = [pc EXCEPT ![t] = "getenv"]
            /\ UNCHANGED returned
    /\ UNCHANGED <<corpusVars, db_url, _engine, request, response, created,
                   fresh, raised>>

\* db_url = os.getenv("DB_URL"); if not db_url: raise RuntimeError
ge_getenv(t) ==
    /\ pc[t] = "getenv"
    /\ IF db_url
       THEN /\ pc' = [pc EXCEPT ![t] = "create"]
            /\ UNCHANGED raised
       ELSE /\ raised' = [raised EXCEPT ![t] = TRUE]
            /\ pc' = [pc EXCEPT ![t] = "idle"]
    /\ UNCHANGED <<corpusVars, db_url, _engine, request, response, created,
                   fresh, returned>>

\* create_engine(db_url, pool_pre_ping=True): the right-hand side
ge_create(t) ==
    /\ pc[t] = "create"
    /\ created' = created + 1
    /\ fresh' = [fresh EXCEPT ![t] = created + 1]
    /\ pc' = [pc EXCEPT ![t] = "store"]
    /\ UNCHANGED <<corpusVars, db_url, _engine, request, response,
                   returned, raised>>

\* _engine = <the new engine>
ge_store(t) ==
    /\ pc[t] = "store"
    /\ _engine' = fresh[t]
    /\ fresh' = [fresh EXCEPT ![t] = NoEngine]
    /\ pc' = [pc EXCEPT ![t] = "return"]
    /\ UNCHANGED <<corpusVars, db_url, request, response, created,
                   returned, raised>>

\* return _engine (the global is read again)
ge_return(t) ==
    /\ pc[t] = "return"
    /\ returned' = [returned EXCEPT ![t] = @ \cup {_engine}]
    /\ pc' = [pc EXCEPT ![t] = "idle"]
    /\ UNCHANGED <<corpusVars, db_url, _engine, request, response, created,
                   fresh, raised>>

NextEngine ==
    \E t \in Threads :
        \/ ge_call(t)
        \/ ge_check(t)
        \/ ge_getenv(t)
        \/ ge_create(t)
        \/ ge_store(t)
        \/ ge_return(t)

SpecEngine == InitEngine /\ [][NextEngine]_vars

----------------------------------------------------------------------------
(* Vocabulary of the properties *)

\* keys(matchset(T)) of a term predicate: the study_ids the term matcher finds
TermKeys(term) ==
    { row[1] : row \in TermQuery(term_pattern(term), term_tfidf(term)) }

\* keys(matchset(A)) - keys(matchset(B)) of the request a response answers
FullDifference ==
    IF request.endpoint = "terms"
    THEN TermKeys(request.a) \ TermKeys(request.b)
    ELSE SpatialQuery(response.a) \ SpatialQuery(response.b)

\* the study_ids of the returned list, in order
ResultIds ==
    IF request.endpoint = "terms"
    THEN [i \in DOMAIN response.results |-> response.results[i].study_id]
    ELSE response.results

Succeeded == response.kind = "result"

\* a coordinate string of exactly three '_'-separated numeric components
WellFormed(coords) ==
    LET toks == split(coords)
    IN  Len(toks) = 3 /\ \A i \in DOMAIN toks : IsFloat(toks[i])

\* sub occurs in s, letter case ignored
Contains(s, sub) ==
    \E i \in 0..(Len(s) - Len(sub)) :
        lower(SubSeq(s, i + 1, i + Len(sub))) = lower(sub)

\* str(e) of the RuntimeError get_engine raises
MissingUrlMessage == "Missing DB_URL (or DATABASE_URL) environment variable."

----------------------------------------------------------------------------
(* C1: a successful dissociation reports as its count the size of the full *)
(* difference keys(matchset(A)) - keys(matchset(B)), whatever that size is *)
(* and whatever the 100-entry cap leaves in the list.                      *)
CountIsFullDifference ==
    Succeeded => response.count = Cardinality(FullDifference)

\* a difference of at least 150 studies was reported in full beside a list
\* cut at the cap
CountPastCapReported ==
    /\ Succeeded
    /\ response.count >= 150
    /\ Len(response.results) = Cap

(* C2: the list of a successful dissociation has min(100, size of the      *)
(* difference) entries, names no study twice, and names only studies of    *)
(* matchset(A) that are not in matchset(B).                                *)
ListIsCappedDifference ==
    Succeeded =>
        /\ Len(ResultIds) = Min(100, Cardinality(FullDifference))
        /\ \A i, j \in DOMAIN ResultIds : ResultIds[i] = ResultIds[j] => i = j
        /\ \A i \in DOMAIN ResultIds : ResultIds[i] \in FullDifference

\* a location difference one past the cap was cut to a list of 100
ListCutAtCap ==
    /\ Succeeded
    /\ request.endpoint = "locations"
    /\ Cardinality(FullDifference) = 101
    /\ Len(response.results) = 100

(* C3: a location request whose coords_a or coords_b is malformed ends in  *)
(* a client error (4xx) response and returns no result set (stated for the *)
(* requests whose handler obtained the engine, so that the reply is the    *)
(* one the handler gives to the malformed input).                          *)
MalformedCoordsClientError ==
    ( /\ request.endpoint = "locations"
      /\ db_url
      /\ ~WellFormed(request.a) \/ ~WellFormed(request.b) )
    => /\ response.status \in 400..499
       /\ ~Succeeded

\* the corpus access of the served request that failed, if one did
HandleFailed == request.endpoint # "none" /\ ~db_url

QueryFailed ==
    /\ request.endpoint # "none"
    /\ ~HandleFailed
    /\ request.endpoint = "locations"
            => WellFormed(request.a) /\ WellFormed(request.b)
    /\ \/ request.fail \in {"connect", "query_a", "query_b"}
       \/ /\ request.fail = "weight"
          /\ request.endpoint = "terms"
          /\ FullDifference # {}

(* C4: when a corpus access of a dissociation request fails (the corpus    *)
(* handle, the query for A, the query for B, a weight lookup), the request *)
(* ends in a 5xx response that carries the underlying error message, and   *)
(* no list or count is returned.                                           *)
CorpusFailureServerError ==
    /\ HandleFailed =>
          /\ response.status \in 500..599
          /\ response.error = MissingUrlMessage
    /\ QueryFailed =>
          /\ response.status \in 500..599
          /\ response.error = ErrorMessage(request.fail)
          /\ ~Succeeded

\* the study_ids with an annotation row of the term's feature name
AnnotationMatches(term) ==
    { at.study_id : at \in { r \in annotations_terms : r.term = term_tfidf(term) } }

\* the study_ids whose title contains the term's words, case ignored
TitleMatches(term) ==
    { m.study_id : m \in { r \in metadata :
                              Contains(r.title, replace(term, "_", " ")) } }

(* C5: the term match set is the union of the studies that have an         *)
(* annotation row of the prefixed canonical key and the studies whose      *)
(* title contains the display pattern, a study with the annotation but no  *)
(* metadata row included.                                                  *)
TermMatchIsUnion ==
    (request.endpoint = "terms" /\ Succeeded) =>
        /\ TermKeys(request.a) = AnnotationMatches(request.a) \cup TitleMatches(request.a)
        /\ TermKeys(request.b) = AnnotationMatches(request.b) \cup TitleMatches(request.b)

\* letter case folded and '-' read as '_'
FoldChar(c) == IF LowerChar(c) = "-" THEN "_" ELSE LowerChar(c)

\* two raw terms that differ only in letter case or in '-' versus '_'
SameUpToCaseAndHyphen(s, t) ==
    Len(s) = Len(t) /\ \A i \in DOMAIN s : FoldChar(s[i]) = FoldChar(t[i])

\* the metadata rows a term selects by title
TitlesSelected(term) == { m \in metadata : ILIKE(m.title, term_pattern(term)) }

(* C6: raw terms that differ only in letter case or in '-' versus '_'      *)
(* yield the same canonical key and select the same titles.                *)
TermNormalization ==
    ( /\ request.endpoint = "terms"
      /\ Succeeded
      /\ SameUpToCaseAndHyphen(request.a, request.b) )
    => /\ term_tfidf(request.a) = term_tfidf(request.b)
       /\ TitlesSelected(request.a) = TitlesSelected(request.b)

\* a request that dissociates a predicate against itself and meets no
\* failure of the corpus
SelfDissociation ==
    /\ request.endpoint # "none"
    /\ request.a = request.b
    /\ request.fail = "none"
    /\ db_url
    /\ request.endpoint = "locations" => WellFormed(request.a)

(* C7: dissociating a predicate against itself succeeds with an empty      *)
(* result: the count is 0 and the list is empty.                           *)
SelfDissociationEmpty ==
    SelfDissociation =>
        /\ Succeeded
        /\ response.count = 0
        /\ response.results = <<>>

\* a predicate that matches studies was dissociated against itself
SelfDissociationOfMatches ==
    /\ SelfDissociation
    /\ Succeeded
    /\ request.endpoint = "terms" => TermKeys(request.a) # {}
    /\ request.endpoint = "locations" => SpatialQuery(response.a) # {}

\* the recorded point of a row lies within 10 mm of the point p
WithinRadius(row, p) ==
    (row.x - p[1]) * (row.x - p[1]) + (row.y - p[2]) * (row.y - p[2])
        + (row.z - p[3]) * (row.z - p[3]) <= 10 * 10

\* the studies with a point within 10 mm of a and none within 10 mm of b
NearANotB(a, b) ==
    { s \in { r.study_id : r \in coordinates } :
        /\ \E r \in coordinates : r.study_id = s /\ WithinRadius(r, a)
        /\ ~\E r \in coordinates : r.study_id = s /\ WithinRadius(r, b) }

(* C8: location dissociation is decided per study: a study is in the       *)
(* difference exactly when one of its points lies within 10 mm of A and    *)
(* none of its points lies within 10 mm of B.                              *)
LocationPerStudy ==
    (request.endpoint = "locations" /\ Succeeded) =>
        /\ response.count = Cardinality(NearANotB(response.a, response.b))
        /\ \A i \in DOMAIN response.results :
               response.results[i] \in NearANotB(response.a, response.b)

(* C9: every entry of a term dissociation carries the title recorded for   *)
(* its study and, as weight, the annotation weight of that study for the   *)
(* feature name of predicate A, or null when the study has no such row.    *)
EntryTitleAndWeight ==
    (request.endpoint = "terms" /\ Succeeded) =>
        \A i \in DOMAIN response.results :
            LET e == response.results[i]
                weights == { at.weight : at \in
                               { r \in annotations_terms :
                                   /\ r.study_id = e.study_id
                                   /\ r.term = term_tfidf(request.a) } }
            IN  /\ \E m \in metadata : m.study_id = e.study_id /\ m.title = e.title
                /\ IF weights = {} THEN e.weight = {}
                   ELSE \E w \in weights : e.weight = {w}

\* a list with an entry of null weight and an entry that carries a weight
EntriesWithAndWithoutWeight ==
    /\ request.endpoint = "terms"
    /\ Succeeded
    /\ \E i, j \in DOMAIN response.results :
           /\ response.results[i].weight = {}
           /\ response.results[j].weight = {2}

(* C10: with DB_URL set, at most one engine is ever created and every call *)
(* of get_engine returns that engine; with DB_URL unset a call raises and  *)
(* leaves the shared handle unset.                                         *)
EngineSingleton ==
    /\ db_url =>
          /\ created <= 1
          /\ Cardinality(UNION { returned[t] : t \in Threads }) <= 1
    /\ ~db_url =>
          /\ _engine = NoEngine
          /\ \A t \in Threads : returned[t] = {}

====
